---- MODULE Spec2Model ----
(***************************************************************************)
(* A model of Xynae: the provider manager of llm_providers.py (selection   *)
(* and fallback), the store wrapper of database.py, and the construction,  *)
(* the mention check and the scheduler loop of xynae.py.                   *)
(*                                                                         *)
(* The specifications share the variables:                                 *)
(*   SpecLLM    the provider manager alone: construction, then generate    *)
(*              calls with every hint and every outcome of each invocation;*)
(*   SpecCheck  one Xynae instance whose check_and_reply_to_mentions is    *)
(*              called again and again, over every fetched batch;          *)
(*   Spec       one Xynae instance: __init__, then run(...) with its       *)
(*              iterations, mention checks, posts, sleeps and backoffs;    *)
(*   SpecLive   Spec with the fairness of the backoff sleep;               *)
(*   SpecStop   Spec with a KeyboardInterrupt arriving in any blocking     *)
(*              call of run;                                               *)
(*   SpecStore  the XynaeDatabase of an instance: its operations and       *)
(*              close(), called in any order;                              *)
(*   SpecCrash  check cycles called directly, any of them cut short by a   *)
(*              KeyboardInterrupt;                                         *)
(*   SpecGen    run(0, 0) with the generate call of every text followed;   *)
(*   SpecFirst  run called with any intervals, one above the clock reading *)
(*              included;                                                  *)
(*   SpecText   generate_tweet called on an instance, for every length of  *)
(*              the provider's output, tweet type and language.            *)
(* Texts (prompts, tweets, replies) are not modelled: a generation is      *)
(* identified by the provider invocation that produced it, and a text by   *)
(* whether it is the generated or the static one and by its length.        *)
(***************************************************************************)
EXTENDS Integers, Sequences, FiniteSets, TLC

VARIABLES
    \* ---- LLMProviderManager (llm_providers.py)
    mgr,                \* "new" before LLMProviderManager(), "ready" after
    providers,          \* self.providers: the registered names, in dict (insertion) order
    preferred_provider, \* self.preferred_provider
    llm,                \* the last generate call: its hint, the invocations made, how it ended
    \* ---- Xynae.__init__ (xynae.py)
    phase,              \* "new", then "constructed", or "failed" when __init__ raised
    init_error,         \* the exception __init__ raised, "none" if none
    init_trace,         \* the collaborators __init__ set up, in order
    db,                 \* self.db: "None", or a XynaeDatabase "connected" / "unavailable"
    twitter_client,     \* whether self.twitter_client is set
    replied_tweets,     \* self.replied_tweets, the in-memory dedup set
    \* ---- the store's collections (database.py)
    db_mentions,        \* mentions: per tweet_id, the replied flags of its documents, oldest first
    db_replies,         \* replies: per original_tweet_id, the number of documents
    db_tweets,          \* tweets: the posted flags of the documents, oldest first
    db_conversations,   \* conversations: the number of documents
    \* ---- Xynae.run and check_and_reply_to_mentions (xynae.py)
    pc,                 \* where run is: "idle", "loop", "check", "post", "sleep", "backoff";
                        \* "stopped" (run returned), "killed" (an exception left run)
    clock,              \* time.time()
    tweet_interval,     \* run's arguments
    check_interval,
    current_time,       \* run's locals
    last_tweet_time,
    last_check_time,
    batch,              \* mentions.data still to be processed in this check cycle
    iter,               \* iterations of the while loop started so far
    caller,             \* who called check_and_reply_to_mentions: "run", or "direct"
    cycles,             \* direct calls of check_and_reply_to_mentions so far
    \* ---- observations (history, not program state)
    reply_count,        \* per mention id, the reply publishes that succeeded
    ev,                 \* what the last step did: its kind and the mention id it was about
    post,               \* the last two post generations: iteration, time and publish result
    sig,                \* the last KeyboardInterrupt: the call it arrived in, the handler that took it
    ret,                \* the last call observed by an outside caller: operation, return value, raised or not
    added               \* the ids put into self.replied_tweets, each once, latest addition last

llmVars == <<mgr, providers, preferred_provider, llm>>

initVars == <<phase, init_error, init_trace, db, twitter_client>>

storeVars == <<db_mentions, db_replies, db_tweets, db_conversations>>

runVars == <<pc, clock, tweet_interval, check_interval, current_time,
             last_tweet_time, last_check_time, batch, iter, caller, cycles>>

obsVars == <<reply_count, ev, post, sig, ret, added>>

vars == <<mgr, providers, preferred_provider, llm, phase, init_error,
          init_trace, db, twitter_client, replied_tweets, db_mentions,
          db_replies, db_tweets, db_conversations, pc, clock, tweet_interval,
          check_interval, current_time, last_tweet_time, last_check_time,
          batch, iter, caller, cycles, reply_count, ev, post, sig, ret, added>>

----------------------------------------------------------------------------
(* Provider manager: llm_providers.py                                      *)

\* The three backends, in the order _initialize_providers probes them.
BackendOrder == <<"anthropic", "openai", "gemini">>

BackendNames == {BackendOrder[i] : i \in 1..Len(BackendOrder)}

\* preferred_provider: "auto", "anthropic", "openai", or "gemini".
PreferredChoices == {"auto"} \cup BackendNames

\* provider=None (also any falsy name: `if provider_name:`).
NoHint == "None"

HintChoices == {NoHint} \cup BackendNames

\* _initialize_providers as it would be if it registered every backend it
\* probes, usable or not.
InitializeProviders_RegistersAll(usable) == BackendOrder

\* _initialize_providers: a backend whose constructor raises or whose
\* is_available() is false is left out; the others are inserted in probe order.
InitializeProviders(usable) ==
    SelectSeq(BackendOrder, LAMBDA n : n \in usable)

\* list(self.providers.keys())
ListAvailableProviders(provs) == provs

InRegistry(provs, name) == \E i \in 1..Len(provs) : provs[i] = name

\* get_provider as it would be if an unregistered hint fell through to the
\* preferred/auto selection instead of raising.
GetProvider_HintFallsThrough(provs, preferred, hint) ==
    IF hint # NoHint /\ InRegistry(provs, hint)
    THEN [ok |-> TRUE, name |-> hint]
    ELSE IF preferred = "auto" \/ ~InRegistry(provs, preferred)
         THEN IF Len(provs) = 0
              THEN [ok |-> FALSE, name |-> "ValueError"]
              ELSE [ok |-> TRUE, name |-> provs[1]]
         ELSE [ok |-> TRUE, name |-> preferred]

\* get_provider: the provider selected, or the ValueError it raises.
GetProvider(provs, preferred, hint) ==
    IF hint # NoHint
    THEN IF ~InRegistry(provs, hint)
         THEN [ok |-> FALSE, name |-> "ValueError"]
         ELSE [ok |-> TRUE, name |-> hint]
    ELSE IF preferred = "auto"
         THEN IF Len(provs) = 0
              THEN [ok |-> FALSE, name |-> "ValueError"]
              ELSE [ok |-> TRUE, name |-> provs[1]]
         ELSE IF ~InRegistry(provs, preferred)
              THEN [ok |-> FALSE, name |-> "ValueError"]
              ELSE [ok |-> TRUE, name |-> preferred]

\* The name the fallback loop skips: `provider or self.preferred_provider`.
FallbackSkipName(preferred, hint) ==
    IF hint # NoHint THEN hint ELSE preferred

\* The providers the fallback loop invokes, in self.providers.items() order.
FallbackChain(provs, preferred, hint) ==
    SelectSeq(provs, LAMBDA n : n # FallbackSkipName(preferred, hint))

\* The error the final `raise Exception(... Last error: {e})` carries, as the
\* index of the invocation that raised it: e is bound by the outer except clause.
CarriedError(calls) == 1

\* How one generate call ended: the hint it was given, the provider names it
\* invoked in order (calls), whether each invocation returned (results), the
\* ending (status), the invocation whose output is returned (value_of, 0 if
\* none) and the invocation whose error the raised exception carries (error_of).
CallRecord(hint, status, calls, outcome, value_of, error_of) ==
    [hint |-> hint, status |-> status, calls |-> calls,
     results |-> SubSeq(outcome, 1, Len(calls)),
     value_of |-> value_of, error_of |-> error_of]

\* generate(prompt, max_tokens, temperature, provider=hint).  outcome[i] is
\* whether the i-th provider invocation of this call returns (TRUE) or raises.
Generate(provs, preferred, hint, outcome) ==
    LET sel == GetProvider(provs, preferred, hint)
        chain == FallbackChain(provs, preferred, hint)
        oks == {j \in 1..Len(chain) : outcome[1 + j]}
        first == IF oks = {} THEN 0
                 ELSE CHOOSE j \in oks : \A k \in oks : j <= k
    IN  IF ~sel.ok
        THEN CallRecord(hint, "ValueError", <<>>, outcome, 0, 0)
        ELSE IF outcome[1]
        THEN CallRecord(hint, "ok", <<sel.name>>, outcome, 1, 0)
        ELSE IF first # 0
        THEN CallRecord(hint, "ok", <<sel.name>> \o SubSeq(chain, 1, first),
                        outcome, 1 + first, 0)
        ELSE CallRecord(hint, "AllFailed", <<sel.name>> \o chain, outcome, 0,
                        CarriedError(<<sel.name>> \o chain))

\* Every outcome of the at most Len(provs)+1 invocations of one generate call.
Outcomes(provs) == [1..(Len(provs) + 1) -> BOOLEAN]

NoCall == CallRecord(NoHint, "none", <<>>, <<>>, 0, 0)

----------------------------------------------------------------------------
(* Bounds of the model and constants of the program                        *)

\* Mention ids the platform may return: 1..NumMentionIds.
NumMentionIds == 2

MentionIds == 1..NumMentionIds

\* The most mentions one fetch returns.  The source asks for max_results=10
\* (xynae.py:327); the model is checked with a smaller batch.
MaxBatch == 2

\* The size the in-memory dedup set is cut back to.  The source uses 100
\* (xynae.py:404-405); the model is checked with a smaller set so that the
\* cut happens within the bounds.
RepliedTweetsLimit == 1

\* Iterations of run's while loop the model follows.
MaxIter == 2

\* Direct calls of check_and_reply_to_mentions the model follows.
MaxCycles == 3

\* Documents per collection (per tweet id in mentions and replies) up to which
\* the store operations called on their own are followed.
MaxDocs == 2

\* The tweet ids those store operations are called with.
StoreIds == {1}

\* The mention ids the platform returns while run is followed (SpecCheck
\* follows the mention check over all of MentionIds).
RunMentionIds == {1}

\* time.sleep(300) after an unexpected error in an iteration.
BackoffSeconds == 300

\* time.sleep(5) after a reply was published.
ReplyPauseSeconds == 5

\* time.time() when run starts: seconds since the epoch, above the intervals
\* run is usually called with.
StartTime == 10000

\* The arguments run is called with in the model.
TweetIntervalChoices == {0, 600}

CheckIntervalChoices == {0, 300}

\* The backends usable at construction, and the llm_provider argument, of the
\* Xynae instances the model constructs (SpecLLM covers every combination).
UsableChoices == {{}, {"anthropic"}}

LlmProviderChoices == {"auto"}

----------------------------------------------------------------------------
(* The store: database.py.  Every operation first tests self.connected.    *)

\* self.db and self.db.is_connected()
StoreMode(d) == d = "connected"

\* is_tweet_replied: find_one({"tweet_id": id, "replied": True}) is not None.
IsTweetReplied(d, mentions, id) ==
    IF ~StoreMode(d) THEN FALSE
    ELSE \E i \in 1..Len(mentions[id]) : mentions[id][i]

\* save_mention: insert_one, whatever documents the id already has.
SaveMention(d, mentions, id, replied) ==
    IF ~StoreMode(d) THEN mentions
    ELSE [mentions EXCEPT ![id] = Append(@, replied)]

\* mark_mention_replied: update_one sets replied on the first document of the id.
MarkMentionReplied(d, mentions, id) ==
    IF ~StoreMode(d) \/ Len(mentions[id]) = 0 THEN mentions
    ELSE [mentions EXCEPT ![id] = [@ EXCEPT ![1] = TRUE]]

\* save_reply: insert_one.
SaveReply(d, replies, id) ==
    IF ~StoreMode(d) THEN replies
    ELSE [replies EXCEPT ![id] = @ + 1]

\* save_tweet: insert_one of a document with the posted flag given.
SaveTweet(d, tweets, posted) ==
    IF ~StoreMode(d) THEN tweets ELSE Append(tweets, posted)

\* save_conversation: insert_one.
SaveConversation(d, conversations) ==
    IF ~StoreMode(d) THEN conversations ELSE conversations + 1

\* The operations of XynaeDatabase that read or write the collections.
StoreOps ==
    {"save_tweet", "save_reply", "save_mention", "mark_mention_replied",
     "is_tweet_replied", "save_conversation", "get_recent_tweets",
     "get_recent_replies", "get_stats"}

\* What an operation returns when self.connected is false.
Sentinel(op) ==
    CASE op \in {"get_recent_tweets", "get_recent_replies"} -> "[]"
      [] op = "is_tweet_replied" -> "False"
      [] op = "get_stats" -> "{connected: False}"
      [] OTHER -> "None"

\* What an operation returns when the store is connected and answers.
Answer(op, id, mentions) ==
    CASE op \in {"save_tweet", "save_reply", "save_mention",
                 "save_conversation"} -> "inserted_id"
      [] op = "is_tweet_replied" ->
             IF IsTweetReplied("connected", mentions, id)
             THEN "True" ELSE "False"
      [] op \in {"get_recent_tweets", "get_recent_replies"} -> "documents"
      [] op = "get_stats" -> "stats"
      [] OTHER -> "None"

\* A store call as it would end if the operations did not test
\* self.connected first: self.db is None without a connection.
StoreCall_NoConnectedTest(op, id, d, mentions, io_ok) ==
    IF StoreMode(d) /\ io_ok
    THEN [op |-> op, id |-> id, value |-> Answer(op, id, mentions),
          raised |-> FALSE, connected |-> StoreMode(d)]
    ELSE [op |-> op, id |-> id, value |-> "none", raised |-> TRUE,
          connected |-> StoreMode(d)]

\* How one call of a store operation ends: every operation returns its
\* sentinel when self.connected is false; otherwise the pymongo call returns
\* (io_ok) or raises.
StoreCall(op, id, d, mentions, io_ok) ==
    IF ~StoreMode(d)
    THEN [op |-> op, id |-> id, value |-> Sentinel(op), raised |-> FALSE,
          connected |-> FALSE]
    ELSE IF io_ok
    THEN [op |-> op, id |-> id, value |-> Answer(op, id, mentions),
          raised |-> FALSE, connected |-> TRUE]
    ELSE [op |-> op, id |-> id, value |-> "none", raised |-> TRUE,
          connected |-> TRUE]

----------------------------------------------------------------------------
(* Xynae.__init__: xynae.py                                                *)

\* __init__ as it would be without the check of list_available_providers().
XynaeInit_NoProviderCheck(imported, usable, preferred, db_arg, tw_arg) ==
    [phase |-> IF imported THEN "constructed" ELSE "failed",
     error |-> IF imported THEN "none" ELSE "ImportError",
     trace |-> IF ~imported THEN <<>>
               ELSE <<"llm">>
                    \o (IF db_arg = "None" THEN <<>> ELSE <<"db">>)
                    \o (IF tw_arg = "nocreds" THEN <<>> ELSE <<"twitter">>),
     mgr |-> IF imported THEN "ready" ELSE "new",
     providers |-> IF imported THEN InitializeProviders(usable) ELSE <<>>,
     preferred |-> IF imported THEN preferred ELSE "auto",
     db |-> IF imported THEN db_arg ELSE "None",
     twitter |-> imported /\ tw_arg = "ok"]

\* What __init__ leaves behind.  imported: whether llm_providers and database
\* could be imported; usable, preferred: the manager's inputs; db_arg: "None"
\* (use_database=False) or how XynaeDatabase._connect ends; tw_arg: "nocreds",
\* or how tweepy.Client(...).get_me() ends ("ok", "fail").
XynaeInit(imported, usable, preferred, db_arg, tw_arg) ==
    LET provs == InitializeProviders(usable)
    IN  IF ~imported
        THEN [phase |-> "failed", error |-> "ImportError", trace |-> <<>>,
              mgr |-> "new", providers |-> <<>>, preferred |-> "auto",
              db |-> "None", twitter |-> FALSE]
        ELSE IF Len(ListAvailableProviders(provs)) = 0
        THEN [phase |-> "failed", error |-> "ValueError", trace |-> <<"llm">>,
              mgr |-> "ready", providers |-> provs, preferred |-> preferred,
              db |-> "None", twitter |-> FALSE]
        ELSE [phase |-> "constructed", error |-> "none",
              trace |-> <<"llm">>
                        \o (IF db_arg = "None" THEN <<>> ELSE <<"db">>)
                        \o (IF tw_arg = "nocreds" THEN <<>> ELSE <<"twitter">>),
              mgr |-> "ready", providers |-> provs, preferred |-> preferred,
              db |-> db_arg, twitter |-> (tw_arg = "ok")]

NoEvent == [kind |-> "none", id |-> 0]

NoPost == [iter |-> 0, time |-> -1, publish |-> "none",
           prev_time |-> -1, prev_publish |-> "none"]

NoSignal == [at |-> "none", by |-> "none"]

NoReturn ==
    [op |-> "none", id |-> 0, value |-> "none", raised |-> FALSE,
     connected |-> FALSE]

\* The state before any constructor ran.
Fresh ==
    /\ mgr = "new"
    /\ providers = <<>>
    /\ preferred_provider = "auto"
    /\ llm = NoCall
    /\ phase = "new"
    /\ init_error = "none"
    /\ init_trace = <<>>
    /\ db = "None"
    /\ twitter_client = FALSE
    /\ replied_tweets = {}
    /\ db_mentions = [id \in MentionIds |-> <<>>]
    /\ db_replies = [id \in MentionIds |-> 0]
    /\ db_tweets = <<>>
    /\ db_conversations = 0
    /\ pc = "idle"
    /\ clock = StartTime
    /\ tweet_interval = 0
    /\ check_interval = 0
    /\ current_time = 0
    /\ last_tweet_time = 0
    /\ last_check_time = 0
    /\ batch = <<>>
    /\ iter = 0
    /\ caller = "run"
    /\ cycles = 0
    /\ reply_count = [id \in MentionIds |-> 0]
    /\ ev = NoEvent
    /\ post = NoPost
    /\ sig = NoSignal
    /\ ret = NoReturn
    /\ added = <<>>

----------------------------------------------------------------------------
(* The provider manager on its own                                         *)

\* LLMProviderManager(preferred_provider): __init__ and _initialize_providers,
\* usable being the backends whose constructor returns and whose
\* is_available() is true.  ret keeps how the construction ended for its
\* caller, with the backends that were usable.
ManagerInit(usable, preferred) ==
    /\ mgr = "new"
    /\ mgr' = "ready"
    /\ providers' = InitializeProviders(usable)
    /\ preferred_provider' = preferred
    /\ llm' = NoCall
    /\ ret' = [op |-> "LLMProviderManager", id |-> 0, value |-> "instance",
               raised |-> FALSE, connected |-> FALSE, given |-> usable]
    /\ UNCHANGED <<initVars, replied_tweets, storeVars, runVars, reply_count,
                   ev, post, sig, added>>

\* One call of LLMProviderManager.generate.
ManagerGenerate(hint, outcome) ==
    /\ mgr = "ready"
    /\ llm' = Generate(providers, preferred_provider, hint, outcome)
    /\ UNCHANGED <<mgr, providers, preferred_provider>>
    /\ UNCHANGED <<initVars, replied_tweets, storeVars, runVars, obsVars>>

InitLLM == Fresh

NextLLM ==
    \/ \E usable \in SUBSET BackendNames, preferred \in PreferredChoices :
           ManagerInit(usable, preferred)
    \/ \E hint \in HintChoices, outcome \in Outcomes(providers) :
           ManagerGenerate(hint, outcome)

SpecLLM == InitLLM /\ [][NextLLM]_vars

----------------------------------------------------------------------------
(* One Xynae instance: __init__, check_and_reply_to_mentions and run       *)

Min(a, b) == IF a <= b THEN a ELSE b

\* __init__ with every combination of its environment.
Construct(imported, usable, preferred, db_arg, tw_arg) ==
    /\ phase = "new"
    /\ LET r == XynaeInit(imported, usable, preferred, db_arg, tw_arg)
       IN  /\ phase' = r.phase
           /\ init_error' = r.error
           /\ init_trace' = r.trace
           /\ mgr' = r.mgr
           /\ providers' = r.providers
           /\ preferred_provider' = r.preferred
           /\ db' = r.db
           /\ twitter_client' = r.twitter
    /\ replied_tweets' = {}
    /\ UNCHANGED <<llm, storeVars, runVars, obsVars>>

\* run(tweet_interval, check_interval) up to the while loop.
RunStart(ti, ci) ==
    /\ phase = "constructed"
    /\ pc = "idle"
    /\ pc' = "loop"
    /\ tweet_interval' = ti
    /\ check_interval' = ci
    /\ last_tweet_time' = 0
    /\ last_check_time' = 0
    /\ caller' = "run"
    /\ UNCHANGED <<llmVars, initVars, replied_tweets, storeVars, clock,
                   current_time, batch, iter, cycles, obsVars>>

\* mentions.data of one fetch: up to MaxBatch distinct mentions among ids.
Batches(ids) ==
    {b \in UNION {[1..n -> ids] : n \in 1..MaxBatch} :
        \A i, j \in 1..Len(b) : i # j => b[i] # b[j]}

\* How get_me and get_users_mentions end: an exception ("error"), no data
\* (me.data or mentions.data empty: "none"), or a batch of mentions.
FetchOutcomes(ids) ==
    [kind : {"error", "none"}, data : {<<>>}]
        \cup [kind : {"mentions"}, data : Batches(ids)]

\* The dedup lookup as it would be if it read the in-memory set in both modes.
AlreadyReplied_MemoryOnly(d, mentions, replied, id) == id \in replied

\* The dedup lookup: the store when it is connected, else the in-memory set.
AlreadyReplied(d, mentions, replied, id) ==
    IF StoreMode(d) THEN IsTweetReplied(d, mentions, id) ELSE id \in replied

\* The order of the additions to self.replied_tweets, once the body of the for
\* loop has turned the set `before` into `after` for mention id: an id added
\* is the latest one.
Recorded(order, before, after, id) ==
    IF id \in after /\ id \notin before
    THEN Append(SelectSeq(order, LAMBDA x : x # id), id)
    ELSE order

\* The clean-up as it would be if it never cut the set back.
CleanupResults_KeepsAll(d, replied) == {replied}

\* The clean-up after the try block: set(list(self.replied_tweets)[-100:]).
\* A set has no insertion order: which elements the slice keeps is not fixed
\* by the program, so every subset of the size is a possible result.
CleanupResults(d, replied) ==
    IF ~StoreMode(d) /\ Cardinality(replied) > RepliedTweetsLimit
    THEN {k \in SUBSET replied : Cardinality(k) = RepliedTweetsLimit}
    ELSE {replied}

\* The marking of a replied mention as it would be if the in-memory set were
\* written with a connected store as well.
MarkMemory_BothSources(d, replied, id) == replied \cup {id}

\* self.replied_tweets once a reply is published (lines 377-387): the id is
\* added in the else branch, taken when no store is connected.
MarkMemory(d, replied, id) ==
    IF StoreMode(d) THEN replied ELSE replied \cup {id}

\* The handling of a mention as it would be if the mention were not saved
\* before its reply is generated.
ObserveMention_NotSaved(d, mentions, id) == mentions

\* The mentions collection once the mention is observed (lines 355-363):
\* save_mention(..., replied=False), called before generate_reply.
ObserveMention(d, mentions, id) == SaveMention(d, mentions, id, FALSE)

\* How the handling of one mention may go: "ok" (nothing raises), the reply
\* publish raises TweepyException or another exception, or (store connected)
\* one of the store calls raises.
MentionOutcomes(d) ==
    {"ok", "publish_tweepy", "publish_other"}
        \cup (IF StoreMode(d)
              THEN {"lookup_error", "save_mention_error", "mark_error",
                    "save_reply_error"}
              ELSE {})

MentionResult(kind, mentions, replies, replied, published, pause, abort) ==
    [kind |-> kind, mentions |-> mentions, replies |-> replies,
     replied |-> replied, published |-> published, pause |-> pause,
     abort |-> abort]

\* The kinds of ev of a mention step in which the reply publish was called.
AttemptKinds ==
    {"reply_failed", "reply_error", "mark_error", "save_reply_error",
     "replied"}

\* generate_reply (lines 300-309) around the manager's generate call g: the
\* text generated, or the static reply when the call raised (`except
\* Exception` takes the ValueError of the selection and the Exception raised
\* when every provider failed alike).
GenerateReply(g) ==
    [text |-> IF g.status = "ok" THEN "generated" ELSE "static",
     raised |-> FALSE]

\* The body of the for loop as it would be if the dedup state were set before
\* the reply is published, so that a failed publish leaves it set.
ProcessMention_MarksBeforePublish(d, mentions, replies, replied, id, o) ==
    LET m1 == ObserveMention(d, mentions, id)
        m2 == MarkMentionReplied(d, m1, id)
    IN  IF StoreMode(d) /\ o = "lookup_error"
        THEN MentionResult("lookup_error", mentions, replies, replied,
                           FALSE, FALSE, TRUE)
        ELSE IF AlreadyReplied(d, mentions, replied, id)
        THEN MentionResult("skipped", mentions, replies, replied,
                           FALSE, FALSE, FALSE)
        ELSE IF StoreMode(d) /\ o = "save_mention_error"
        THEN MentionResult("save_mention_error", mentions, replies, replied,
                           FALSE, FALSE, TRUE)
        ELSE IF o = "publish_tweepy"
        THEN MentionResult("reply_failed", m2, replies,
                           MarkMemory(d, replied, id),
                           FALSE, FALSE, FALSE)
        ELSE IF o = "publish_other"
        THEN MentionResult("reply_error", m1, replies, replied,
                           FALSE, FALSE, TRUE)
        ELSE IF StoreMode(d) /\ o = "mark_error"
        THEN MentionResult("mark_error", m1, replies, replied,
                           TRUE, FALSE, TRUE)
        ELSE IF StoreMode(d) /\ o = "save_reply_error"
        THEN MentionResult("save_reply_error", m2, replies, replied,
                           TRUE, FALSE, TRUE)
        ELSE MentionResult("replied", m2, SaveReply(d, replies, id),
                           MarkMemory(d, replied, id),
                           TRUE, TRUE, FALSE)

\* The loop body as it would be if the reply were recorded in the store
\* before create_tweet was called: a failed publish would leave its record.
ProcessMention_RecordsReplyFirst(d, mentions, replies, replied, id, o) ==
    LET m1 == ObserveMention(d, mentions, id)
        m2 == MarkMentionReplied(d, m1, id)
    IN  IF StoreMode(d) /\ o = "lookup_error"
        THEN MentionResult("lookup_error", mentions, replies, replied,
                           FALSE, FALSE, TRUE)
        ELSE IF AlreadyReplied(d, mentions, replied, id)
        THEN MentionResult("skipped", mentions, replies, replied,
                           FALSE, FALSE, FALSE)
        ELSE IF StoreMode(d) /\ o = "save_mention_error"
        THEN MentionResult("save_mention_error", mentions, replies, replied,
                           FALSE, FALSE, TRUE)
        ELSE IF o = "publish_tweepy"
        THEN MentionResult("reply_failed", m1, SaveReply(d, replies, id),
                           replied, FALSE, FALSE, FALSE)
        ELSE IF o = "publish_other"
        THEN MentionResult("reply_error", m1, SaveReply(d, replies, id),
                           replied, FALSE, FALSE, TRUE)
        ELSE IF StoreMode(d) /\ o = "mark_error"
        THEN MentionResult("mark_error", m1, replies, replied,
                           TRUE, FALSE, TRUE)
        ELSE IF StoreMode(d) /\ o = "save_reply_error"
        THEN MentionResult("save_reply_error", m2, replies, replied,
                           TRUE, FALSE, TRUE)
        ELSE MentionResult("replied", m2, SaveReply(d, replies, id),
                           MarkMemory(d, replied, id),
                           TRUE, TRUE, FALSE)

\* The body of `for mention in mentions.data` for one mention, under outcome o.
\* abort: an exception left the loop (caught by the handlers after it).
ProcessMention(d, mentions, replies, replied, id, o) ==
    LET m1 == ObserveMention(d, mentions, id)
        m2 == MarkMentionReplied(d, m1, id)
    IN  IF StoreMode(d) /\ o = "lookup_error"
        THEN MentionResult("lookup_error", mentions, replies, replied,
                           FALSE, FALSE, TRUE)
        ELSE IF AlreadyReplied(d, mentions, replied, id)
        THEN MentionResult("skipped", mentions, replies, replied,
                           FALSE, FALSE, FALSE)
        ELSE IF StoreMode(d) /\ o = "save_mention_error"
        THEN MentionResult("save_mention_error", mentions, replies, replied,
                           FALSE, FALSE, TRUE)
        ELSE IF o = "publish_tweepy"
        THEN MentionResult("reply_failed", m1, replies, replied,
                           FALSE, FALSE, FALSE)
        ELSE IF o = "publish_other"
        THEN MentionResult("reply_error", m1, replies, replied,
                           FALSE, FALSE, TRUE)
        ELSE IF StoreMode(d) /\ o = "mark_error"
        THEN MentionResult("mark_error", m1, replies, replied,
                           TRUE, FALSE, TRUE)
        ELSE IF StoreMode(d) /\ o = "save_reply_error"
        THEN MentionResult("save_reply_error", m2, replies, replied,
                           TRUE, FALSE, TRUE)
        ELSE MentionResult("replied", m2, SaveReply(d, replies, id),
                           MarkMemory(d, replied, id),
                           TRUE, TRUE, FALSE)

\* check_and_reply_to_mentions from its first line up to its for loop, under
\* the fetch outcome given; back is the pc of the caller's next statement.
\* A return before the loop goes back to the caller at once.
CheckStart(fetch, back) ==
    IF ~twitter_client
    THEN /\ pc' = back
         /\ ev' = [kind |-> "no_client", id |-> 0]
         /\ UNCHANGED <<batch, replied_tweets>>
    ELSE IF fetch.kind = "mentions"
    THEN /\ batch' = fetch.data
         /\ pc' = "check"
         /\ ev' = [kind |-> "fetched", id |-> 0]
         /\ UNCHANGED replied_tweets
    ELSE /\ batch' = <<>>
         /\ pc' = back
         /\ ev' = [kind |-> IF fetch.kind = "error"
                            THEN "check_error" ELSE "no_mentions",
                   id |-> 0]
         /\ IF fetch.kind = "error"
            THEN replied_tweets' \in CleanupResults(db, replied_tweets)
            ELSE UNCHANGED replied_tweets

\* Whether the mention check is due in run (line 443).
CheckDue(client, now, last, interval) ==
    client /\ (now - last) >= interval

\* The top of an iteration: current_time = time.time(), and, when the mention
\* check is due, check_and_reply_to_mentions up to its for loop;
\* last_check_time = current_time follows the return of the check.
IterBegin(fetch) ==
    /\ pc = "loop"
    /\ iter < MaxIter
    /\ iter' = iter + 1
    /\ current_time' = clock
    /\ caller' = "run"
    /\ IF CheckDue(twitter_client, clock, last_check_time, check_interval)
       THEN /\ CheckStart(fetch, "post")
            /\ last_check_time' =
                   IF fetch.kind = "mentions" THEN last_check_time ELSE clock
       ELSE /\ pc' = "post"
            /\ ev' = NoEvent
            /\ UNCHANGED <<batch, replied_tweets, last_check_time>>
    /\ UNCHANGED <<llmVars, initVars, storeVars, clock, tweet_interval,
                   check_interval, last_tweet_time, cycles, reply_count, post,
                   sig, ret, added>>

\* check_and_reply_to_mentions called on a constructed instance outside run.
CheckCall(fetch) ==
    /\ phase = "constructed"
    /\ pc = "idle"
    /\ cycles < MaxCycles
    /\ cycles' = cycles + 1
    /\ caller' = "direct"
    /\ CheckStart(fetch, "idle")
    /\ UNCHANGED <<llmVars, initVars, storeVars, clock, tweet_interval,
                   check_interval, current_time, last_tweet_time,
                   last_check_time, iter, reply_count, post, sig, ret, added>>

\* The return of check_and_reply_to_mentions as it would be if an exception
\* that left the for loop went on to run's outer handler.
CheckReturn_ErrorEscapes(who, aborted, now, last) ==
    IF who = "run" /\ aborted
    THEN [pc |-> "backoff", last |-> last]
    ELSE [pc |-> IF who = "run" THEN "post" ELSE "idle",
          last |-> IF who = "run" THEN now ELSE last]

\* The return of check_and_reply_to_mentions to who called it: both handlers
\* after the for loop (lines 398-401) end the call normally, so in run the
\* statement last_check_time = current_time (line 446) follows in any case.
CheckReturn(who, aborted, now, last) ==
    [pc |-> IF who = "run" THEN "post" ELSE "idle",
     last |-> IF who = "run" THEN now ELSE last]

\* One mention of the batch; after the last one, or when an exception leaves
\* the loop, the clean-up, the return to run and last_check_time = current_time.
\* s: the KeyboardInterrupt last delivered, once this step is over.
\* g: the manager's generate call made by generate_reply, as far as it is
\* followed; it is made when the step gets to the reply publish.
MentionStep(o, s, g) ==
    /\ pc = "check"
    /\ batch # <<>>
    /\ \E id \in {Head(batch)} :
       \E r0 \in {ProcessMention(db, db_mentions, db_replies, replied_tweets,
                                 id, o)} :
       \E r \in {IF r0.kind \in AttemptKinds /\ GenerateReply(g).raised
                  THEN MentionResult("generate_error",
                                     ObserveMention(db, db_mentions, id),
                                     db_replies, replied_tweets,
                                     FALSE, FALSE, TRUE)
                  ELSE r0} :
           /\ llm' = IF r0.kind \in AttemptKinds THEN g ELSE llm
           /\ db_mentions' = r.mentions
           /\ db_replies' = r.replies
           /\ reply_count' =
                  IF r.published
                  THEN [reply_count EXCEPT ![id] = @ + 1]
                  ELSE reply_count
           /\ clock' = IF r.pause THEN clock + ReplyPauseSeconds ELSE clock
           /\ ev' = [kind |-> r.kind, id |-> id]
           /\ added' = Recorded(added, replied_tweets, r.replied, id)
           /\ IF r.abort \/ Len(batch) = 1
              THEN LET back == CheckReturn(caller, r.abort, current_time,
                                           last_check_time)
                   IN  /\ replied_tweets' \in CleanupResults(db, r.replied)
                       /\ batch' = <<>>
                       /\ last_check_time' = back.last
                       /\ pc' = back.pc
              ELSE /\ replied_tweets' = r.replied
                   /\ batch' = Tail(batch)
                   /\ UNCHANGED <<last_check_time, pc>>
    /\ sig' = s
    /\ UNCHANGED <<mgr, providers, preferred_provider, initVars, db_tweets,
                   db_conversations, tweet_interval, check_interval,
                   current_time, last_tweet_time, iter, caller, cycles, post,
                   ret>>

\* One mention of the batch, no KeyboardInterrupt arriving.
CheckMention(o) == MentionStep(o, sig, llm)

\* One mention of the batch, the generate call of its reply followed.
GenMention(o, outcome) ==
    MentionStep(o, sig,
                Generate(providers, preferred_provider, NoHint, outcome))

\* The publish as it would be if the post were recorded as unposted before
\* create_tweet and recorded again once it is published.
PublishPost_RecordsFirst(d, client, tweets, last, now, pub, saved) ==
    IF ~client
    THEN [result |-> "noclient", tweets |-> tweets, last |-> last,
          raised |-> FALSE]
    ELSE IF pub = "ok"
    THEN IF StoreMode(d) /\ ~saved
         THEN [result |-> "ok_unsaved", tweets |-> tweets, last |-> last,
               raised |-> FALSE]
         ELSE [result |-> "ok",
               tweets |-> SaveTweet(d, SaveTweet(d, tweets, FALSE), TRUE),
               last |-> now, raised |-> FALSE]
    ELSE IF pub = "tweepy"
    THEN IF StoreMode(d) /\ ~saved
         THEN [result |-> "tweepy_unsaved", tweets |-> tweets, last |-> last,
               raised |-> TRUE]
         ELSE [result |-> "tweepy", tweets |-> SaveTweet(d, tweets, FALSE),
               last |-> last, raised |-> FALSE]
    ELSE [result |-> "other", tweets |-> tweets, last |-> last,
          raised |-> FALSE]

\* The publish of a generated post and what follows it in run (lines 476-505):
\* pub is how create_tweet ends ("ok", "tweepy", "other"), saved whether
\* save_tweet returns.  raised: an exception reaches run's outer handler.
PublishPost(d, client, tweets, last, now, pub, saved) ==
    IF ~client
    THEN [result |-> "noclient", tweets |-> tweets, last |-> last,
          raised |-> FALSE]
    ELSE IF pub = "ok"
    THEN IF StoreMode(d) /\ ~saved
         THEN [result |-> "ok_unsaved", tweets |-> tweets, last |-> last,
               raised |-> FALSE]
         ELSE [result |-> "ok", tweets |-> SaveTweet(d, tweets, TRUE),
               last |-> now, raised |-> FALSE]
    ELSE IF pub = "tweepy"
    THEN IF StoreMode(d) /\ ~saved
         THEN [result |-> "tweepy_unsaved", tweets |-> tweets, last |-> last,
               raised |-> TRUE]
         ELSE [result |-> "tweepy", tweets |-> SaveTweet(d, tweets, FALSE),
               last |-> last, raised |-> FALSE]
    ELSE [result |-> "other", tweets |-> tweets, last |-> last,
          raised |-> FALSE]

\* How a store call made by run may end: it returns (TRUE) or, when the store
\* is connected, raises (FALSE); without a connected store it always returns.
StoreReturns(d) == IF StoreMode(d) THEN BOOLEAN ELSE {TRUE}

\* How create_tweet(text=tweet) may end; it is not called without a client.
PublishOutcomes(client) ==
    IF client THEN {"ok", "tweepy", "other"} ELSE {"none"}

\* Whether the post is due: (current_time - last_tweet_time) >= tweet_interval.
PostDue(now, last, interval) == (now - last) >= interval

\* generate_tweet as it would be if an exception of the generation went on to
\* its caller instead of being answered with the static text.
GenerateTweet_Propagates(d, g, conv_saved) ==
    [text |-> IF g.status = "ok" /\ (StoreMode(d) => conv_saved)
              THEN "generated" ELSE "static",
     conv |-> g.status = "ok" /\ StoreMode(d) /\ conv_saved,
     raised |-> g.status # "ok"]

\* generate_tweet (lines 209-261) around the manager's generate call g: the
\* generated text, once save_conversation has stored it (conv; conv_saved is
\* whether that call returns), or the static text when the generate call or
\* save_conversation raised (`except Exception`).
GenerateTweet(d, g, conv_saved) ==
    [text |-> IF g.status = "ok" /\ (StoreMode(d) => conv_saved)
              THEN "generated" ELSE "static",
     conv |-> g.status = "ok" /\ StoreMode(d) /\ conv_saved,
     raised |-> FALSE]

\* The posting part of an iteration: generate_tweet (the manager's generate,
\* then save_conversation, which returns or raises) and the publish.
\* s: the KeyboardInterrupt last delivered, once this step is over; followed:
\* whether the generate call is kept in llm.
PostStep(outcome, conv_saved, pub, saved, s, followed) ==
    /\ pc = "post"
    /\ IF PostDue(current_time, last_tweet_time, tweet_interval)
       THEN \E g \in {Generate(providers, preferred_provider, NoHint,
                                outcome)} :
            \E t \in {GenerateTweet(db, g, conv_saved)} :
            \E r \in {IF t.raised
                       THEN [result |-> "generate_error", tweets |-> db_tweets,
                             last |-> last_tweet_time, raised |-> TRUE]
                       ELSE PublishPost(db, twitter_client, db_tweets,
                                        last_tweet_time, current_time, pub,
                                        saved)} :
                /\ llm' = IF followed THEN g ELSE llm
                /\ db_conversations' =
                       IF t.conv THEN SaveConversation(db, db_conversations)
                       ELSE db_conversations
                /\ db_tweets' = r.tweets
                /\ last_tweet_time' = r.last
                /\ pc' = IF r.raised THEN "backoff" ELSE "sleep"
                /\ post' = [iter |-> iter, time |-> current_time,
                            publish |-> r.result, prev_time |-> post.time,
                            prev_publish |-> post.publish]
                /\ ev' = [kind |-> "post_" \o r.result, id |-> 0]
       ELSE /\ pc' = "sleep"
            /\ ev' = NoEvent
            /\ UNCHANGED <<llm, db_conversations, db_tweets, last_tweet_time,
                           post>>
    /\ sig' = s
    /\ UNCHANGED <<mgr, providers, preferred_provider, initVars,
                   replied_tweets, db_mentions, db_replies,
                   clock, tweet_interval, check_interval, current_time,
                   last_check_time, batch, iter, caller, cycles,
                   reply_count, ret, added>>

\* The posting part of an iteration, no KeyboardInterrupt arriving.
Post(outcome, conv_saved, pub, saved) ==
    PostStep(outcome, conv_saved, pub, saved, sig, FALSE)

\* The posting part of an iteration, its generate call followed.
GenPost(outcome, conv_saved, pub, saved) ==
    PostStep(outcome, conv_saved, pub, saved, sig, TRUE)

\* time_until_tweet as it would be without the test of last_tweet_time > 0.
TimeUntilTweet_NoTest(now, last, interval) == interval - (now - last)

\* time_until_tweet (line 512).
TimeUntilTweet(now, last, interval) ==
    IF last > 0 THEN interval - (now - last) ELSE interval

\* The argument of time.sleep at the end of an iteration (line 524).
SleepDuration(now, last, interval, check) ==
    Min(check, TimeUntilTweet(now, last, interval))

\* The end of an iteration: time.sleep(...), which raises ValueError for a
\* negative duration (caught by run's outer handler).
Sleep ==
    /\ pc = "sleep"
    /\ LET d == SleepDuration(current_time, last_tweet_time, tweet_interval,
                              check_interval)
       IN  IF d < 0
           THEN /\ pc' = "backoff"
                /\ ev' = [kind |-> "sleep_error", id |-> 0]
                /\ UNCHANGED clock
           ELSE /\ pc' = "loop"
                /\ ev' = [kind |-> "slept", id |-> 0]
                /\ clock' = clock + d
    /\ UNCHANGED <<llmVars, initVars, replied_tweets, storeVars,
                   tweet_interval, check_interval, current_time,
                   last_tweet_time, last_check_time, batch, iter, caller,
                   cycles, reply_count, post, sig, ret, added>>

\* run's outer handler as it would be if it gave the loop up after the sleep.
Backoff_GivesUp ==
    /\ pc = "backoff"
    /\ pc' = "idle"
    /\ clock' = clock + BackoffSeconds
    /\ ev' = [kind |-> "backoff", id |-> 0]
    /\ UNCHANGED <<llmVars, initVars, replied_tweets, storeVars,
                   tweet_interval, check_interval, current_time,
                   last_tweet_time, last_check_time, batch, iter, caller,
                   cycles, reply_count, post, sig, ret, added>>

\* run's outer `except Exception`: time.sleep(300), then the next iteration.
Backoff ==
    /\ pc = "backoff"
    /\ pc' = "loop"
    /\ clock' = clock + BackoffSeconds
    /\ ev' = [kind |-> "backoff", id |-> 0]
    /\ UNCHANGED <<llmVars, initVars, replied_tweets, storeVars,
                   tweet_interval, check_interval, current_time,
                   last_tweet_time, last_check_time, batch, iter, caller,
                   cycles, reply_count, post, sig, ret, added>>

Init == Fresh

\* The instances constructed: every environment of __init__.
ConstructAny ==
    \E imported \in BOOLEAN, usable \in UsableChoices,
       preferred \in LlmProviderChoices,
       db_arg \in {"None", "connected", "unavailable"},
       tw_arg \in {"nocreds", "ok", "fail"} :
        Construct(imported, usable, preferred, db_arg, tw_arg)

\* One instance running run(tweet_interval, check_interval).
Next ==
    \/ ConstructAny
    \/ \E ti \in TweetIntervalChoices, ci \in CheckIntervalChoices :
           RunStart(ti, ci)
    \/ \E fetch \in FetchOutcomes(RunMentionIds) : IterBegin(fetch)
    \/ \E o \in MentionOutcomes(db) : CheckMention(o)
    \/ \E outcome \in Outcomes(providers), conv_saved \in StoreReturns(db),
          pub \in PublishOutcomes(twitter_client),
          saved \in StoreReturns(db) :
           Post(outcome, conv_saved, pub, saved)
    \/ Sleep
    \/ Backoff

Spec == Init /\ [][Next]_vars

\* One instance whose check_and_reply_to_mentions is called again and again:
\* any sequence of check cycles over any fetched batches.
NextCheck ==
    \/ ConstructAny
    \/ \E fetch \in FetchOutcomes(MentionIds) : CheckCall(fetch)
    \/ \E o \in MentionOutcomes(db) : CheckMention(o)

SpecCheck == Init /\ [][NextCheck]_vars

\* run with its scheduling: time.sleep(300) returns, so the backoff ends.
SpecLive == Spec /\ WF_vars(Backoff)

\* The llm_provider argument of the instances whose generate calls are
\* followed: "auto", or a backend that is not registered ("openai", with
\* "anthropic" the one usable), so that every selection raises ValueError.
GenProviderChoices == {"auto", "openai"}

\* One instance running run(0, 0), every iteration checking the mentions and
\* posting, with the generate call of every text followed.  The generation
\* and the platform calls end in every way; the store calls return, so that
\* no posting step ends in run's outer handler because of the store.
NextGen ==
    \/ \E usable \in UsableChoices, preferred \in GenProviderChoices,
          db_arg \in {"None", "connected"}, tw_arg \in {"nocreds", "ok"} :
           Construct(TRUE, usable, preferred, db_arg, tw_arg)
    \/ RunStart(0, 0)
    \/ \E fetch \in FetchOutcomes(RunMentionIds) : IterBegin(fetch)
    \/ \E o \in {"ok", "publish_tweepy", "publish_other"},
          outcome \in Outcomes(providers) :
           GenMention(o, outcome)
    \/ \E outcome \in Outcomes(providers),
          pub \in PublishOutcomes(twitter_client) :
           GenPost(outcome, TRUE, pub, TRUE)
    \/ Sleep
    \/ Backoff

SpecGen == Init /\ [][NextGen]_vars

\* The arguments of run when the first iteration is looked at: any number of
\* seconds is accepted, one above the reading of time.time() included.
FirstIntervalChoices == {0, 600, 2 * StartTime}

\* One instance running run with any of these intervals; the store calls
\* return and the generation succeeds.
NextFirst ==
    \/ \E db_arg \in {"None", "connected"}, tw_arg \in {"nocreds", "ok"} :
           Construct(TRUE, {"anthropic"}, "auto", db_arg, tw_arg)
    \/ \E ti \in FirstIntervalChoices, ci \in FirstIntervalChoices :
           RunStart(ti, ci)
    \/ \E fetch \in FetchOutcomes(RunMentionIds) : IterBegin(fetch)
    \/ \E o \in {"ok", "publish_tweepy"} : CheckMention(o)
    \/ \E outcome \in {[i \in 1..(Len(providers) + 1) |-> TRUE]},
          pub \in PublishOutcomes(twitter_client) :
           Post(outcome, TRUE, pub, TRUE)
    \/ Sleep
    \/ Backoff

SpecFirst == Init /\ [][NextFirst]_vars

----------------------------------------------------------------------------
(* generate_tweet and the length of the text it returns                    *)

\* The longest provider output looked at, in characters.
MaxOutputLen == 300

\* `if len(tweet) > 280` (line 218).
TweetLimit == 280

\* tweet[:277] (line 219).
TruncatedPrefix == 277

\* len("...") (line 219).
EllipsisLength == 3

\* len of the text returned when neither the language nor the tweet type has
\* a static text of its own (line 261).
DefaultStaticLength == 76

\* len of each text of fallbacks (lines 240-259); random.randint(1000, 9999)
\* always prints as four digits.
FallbackLengths ==
    [english |-> [insight |-> 120, ecosystem |-> 92, autonomy |-> 113,
                  invitation |-> 80],
     chinese |-> [insight |-> 42, ecosystem |-> 35, autonomy |-> 30,
                  invitation |-> 25],
     mixed |-> [insight |-> 63, ecosystem |-> 36, autonomy |-> 64,
                invitation |-> 44]]

\* The tweet_type and language arguments: the documented ones and one other.
TweetTypes == {"insight", "ecosystem", "autonomy", "invitation", "custom"}

Languages == {"english", "chinese", "mixed", "auto", "other"}

\* The language after the random draw made for "auto" (lines 180-187).
ResolveLanguage(language) ==
    IF language = "auto" THEN {"english", "chinese", "mixed"} ELSE {language}

\* The truncation as it would be if it kept TweetLimit characters before the
\* ellipsis.
Truncate_KeepsLimit(n) ==
    IF n > TweetLimit THEN Min(n, TweetLimit) + EllipsisLength ELSE n

\* len of the generated text after lines 218-219, n being len of the
\* provider's output: tweet[:277] + "...".
Truncate(n) ==
    IF n > TweetLimit THEN Min(n, TruncatedPrefix) + EllipsisLength ELSE n

\* len of fallbacks.get(language, fallbacks["english"]).get(tweet_type, ...).
StaticLength(language, tweet_type) ==
    LET table == IF language \in DOMAIN FallbackLengths
                 THEN FallbackLengths[language]
                 ELSE FallbackLengths["english"]
    IN  IF tweet_type \in DOMAIN table
        THEN table[tweet_type]
        ELSE DefaultStaticLength

\* generate_tweet(tweet_type, language) called on a constructed instance
\* outside run (cli.py does so): the manager's generate call under outcome,
\* its output n characters long, then save_conversation, which returns or
\* raises.  ret keeps what the caller gets.
GenerateTweetCall(tweet_type, language, n, outcome, conv_saved) ==
    /\ phase = "constructed"
    /\ pc = "idle"
    /\ \E lang \in ResolveLanguage(language) :
       \E g \in {Generate(providers, preferred_provider, NoHint, outcome)} :
       \E t \in {GenerateTweet(db, g, conv_saved)} :
           /\ llm' = g
           /\ db_conversations' =
                  IF t.conv THEN SaveConversation(db, db_conversations)
                  ELSE db_conversations
           /\ ret' = [op |-> "generate_tweet", id |-> 0,
                      value |-> IF t.text = "generated"
                                THEN Truncate(n)
                                ELSE StaticLength(lang, tweet_type),
                      raised |-> t.raised, connected |-> StoreMode(db),
                      text |-> t.text, given |-> n]
    /\ UNCHANGED <<mgr, providers, preferred_provider, initVars,
                   replied_tweets, db_mentions, db_replies, db_tweets,
                   runVars, reply_count, ev, post, sig, added>>

\* One instance whose generate_tweet is called.  What the call returns
\* depends on the instance through its providers and its store only, which
\* no call changes: the first call on an instance is followed.
NextText ==
    \/ \E usable \in UsableChoices, db_arg \in {"None", "connected"} :
           Construct(TRUE, usable, "auto", db_arg, "nocreds")
    \/ /\ ret = NoReturn
       /\ \E tweet_type \in TweetTypes, language \in Languages,
             n \in 0..MaxOutputLen, outcome \in Outcomes(providers),
             conv_saved \in StoreReturns(db) :
              GenerateTweetCall(tweet_type, language, n, outcome, conv_saved)

SpecText == Init /\ [][NextText]_vars

----------------------------------------------------------------------------
(* KeyboardInterrupt: the cancellation signal of run                       *)

\* XynaeDatabase.close(): with a client it closes it and clears connected;
\* after a failed _connect the client is None and close does nothing.
Close(d) == IF d \in {"connected", "closed"} THEN "closed" ELSE d

\* The blocking calls of the body of the for loop in which a KeyboardInterrupt
\* is taken by no handler of check_and_reply_to_mentions or below (`except
\* Exception` and `except tweepy.TweepyException` do not catch it).
MentionUnwindPoints ==
    {"lookup", "save_mention", "generate", "publish", "mark", "save_reply",
     "pause"}

\* The blocking calls made under a bare `except:` (xynae.py:352 around
\* get_user, llm_providers.py:227 around a fallback provider's generate): a
\* KeyboardInterrupt arriving there is swallowed like any other exception.
AbsorbPoints == {"get_user", "fallback"}

\* The blocking calls of the posting part of an iteration that unwind.
PostUnwindPoints == {"generate", "save_conversation", "publish", "save_tweet"}

\* Whether the body of the for loop, for mention id, gets to the call point.
MentionPointReached(d, mentions, replied, id, point) ==
    IF point = "lookup"
    THEN StoreMode(d)
    ELSE /\ ~AlreadyReplied(d, mentions, replied, id)
         /\ point \in {"save_mention", "mark", "save_reply"} => StoreMode(d)

\* What the body of the for loop has done for mention id when a
\* KeyboardInterrupt arrives in the call point.
MentionInterrupted(d, mentions, replies, replied, id, point) ==
    LET m1 == ObserveMention(d, mentions, id)
        m2 == MarkMentionReplied(d, m1, id)
    IN  IF point \in {"lookup", "save_mention"}
        THEN MentionResult("interrupted", mentions, replies, replied,
                           FALSE, FALSE, TRUE)
        ELSE IF point \in {"generate", "publish"}
        THEN MentionResult("interrupted", m1, replies, replied,
                           FALSE, FALSE, TRUE)
        ELSE IF point = "mark"
        THEN MentionResult("interrupted", m1, replies, replied,
                           TRUE, FALSE, TRUE)
        ELSE IF point = "save_reply"
        THEN MentionResult("interrupted", m2, replies, replied,
                           TRUE, FALSE, TRUE)
        ELSE MentionResult("interrupted", m2, SaveReply(d, replies, id),
                           MarkMemory(d, replied, id),
                           TRUE, FALSE, TRUE)

\* run's `except KeyboardInterrupt` (lines 526-533): with a connected store
\* get_stats, which returns (stats_ok) or raises out of the handler, then
\* close; then break.  r is the record of the last store call made.
Shutdown(d, stats_ok, r) ==
    IF ~StoreMode(d)
    THEN [pc |-> "stopped", db |-> d, ret |-> r]
    ELSE IF stats_ok
    THEN [pc |-> "stopped", db |-> Close(d),
          ret |-> StoreCall("get_stats", 0, d, <<>>, TRUE)]
    ELSE [pc |-> "killed", db |-> d,
          ret |-> StoreCall("get_stats", 0, d, <<>>, FALSE)]

\* A KeyboardInterrupt in get_me or get_users_mentions of a mention check that
\* an iteration of run has just started.
InterruptFetch(stats_ok) ==
    /\ pc = "loop"
    /\ iter < MaxIter
    /\ CheckDue(twitter_client, clock, last_check_time, check_interval)
    /\ iter' = iter + 1
    /\ current_time' = clock
    /\ LET h == Shutdown(db, stats_ok, ret)
       IN  pc' = h.pc /\ db' = h.db /\ ret' = h.ret
    /\ sig' = [at |-> "fetch", by |-> "run"]
    /\ ev' = [kind |-> "interrupted", id |-> 0]
    /\ UNCHANGED <<llmVars, phase, init_error, init_trace, twitter_client,
                   replied_tweets, storeVars, clock, tweet_interval,
                   check_interval, last_tweet_time, last_check_time, batch,
                   caller, cycles, reply_count, post, added>>

\* A KeyboardInterrupt in a call of the body of the for loop that unwinds: the
\* rest of the check (its clean-up included) and of the iteration is skipped.
InterruptMention(point, stats_ok) ==
    /\ pc = "check"
    /\ caller = "run"
    /\ batch # <<>>
    /\ MentionPointReached(db, db_mentions, replied_tweets, Head(batch), point)
    /\ LET id == Head(batch)
           r == MentionInterrupted(db, db_mentions, db_replies,
                                   replied_tweets, id, point)
           h == Shutdown(db, stats_ok, ret)
       IN  /\ db_mentions' = r.mentions
           /\ db_replies' = r.replies
           /\ replied_tweets' = r.replied
           /\ reply_count' =
                  IF r.published
                  THEN [reply_count EXCEPT ![id] = @ + 1]
                  ELSE reply_count
           /\ ev' = [kind |-> r.kind, id |-> id]
           /\ added' = Recorded(added, replied_tweets, r.replied, id)
           /\ pc' = h.pc /\ db' = h.db /\ ret' = h.ret
    /\ batch' = <<>>
    /\ sig' = [at |-> point, by |-> "run"]
    /\ UNCHANGED <<llmVars, phase, init_error, init_trace, twitter_client,
                   db_tweets, db_conversations, clock, tweet_interval,
                   check_interval, current_time, last_tweet_time,
                   last_check_time, iter, caller, cycles, post>>

\* A KeyboardInterrupt in get_user, or in a fallback provider's generate of
\* generate_reply, while the mention is handled under outcome o: the bare
\* except takes it (username = "unknown", or the next provider is tried) and
\* the handling of the mention goes on.
AbsorbMention(point, o) ==
    /\ pc = "check"
    /\ caller = "run"
    /\ batch # <<>>
    /\ ~AlreadyReplied(db, db_mentions, replied_tweets, Head(batch))
    /\ ~(StoreMode(db) /\ o = "lookup_error")
    /\ point = "fallback"
           => /\ ~(StoreMode(db) /\ o = "save_mention_error")
              /\ FallbackChain(providers, preferred_provider, NoHint) # <<>>
    /\ MentionStep(o, [at |-> point, by |-> "bare_except"], llm)

\* A KeyboardInterrupt in a call of the posting part that unwinds.  conv:
\* whether save_conversation had stored the generation before it.
InterruptPost(point, conv, stats_ok) ==
    /\ pc = "post"
    /\ PostDue(current_time, last_tweet_time, tweet_interval)
    /\ point \in {"publish", "save_tweet"} => twitter_client
    /\ point \in {"save_conversation", "save_tweet"} => StoreMode(db)
    /\ conv => (StoreMode(db) /\ point \in {"publish", "save_tweet"})
    /\ db_conversations' =
           IF conv THEN SaveConversation(db, db_conversations)
           ELSE db_conversations
    /\ LET h == Shutdown(db, stats_ok, ret)
       IN  pc' = h.pc /\ db' = h.db /\ ret' = h.ret
    /\ sig' = [at |-> point, by |-> "run"]
    /\ ev' = [kind |-> "interrupted", id |-> 0]
    /\ UNCHANGED <<llmVars, phase, init_error, init_trace, twitter_client,
                   replied_tweets, db_mentions, db_replies, db_tweets, clock,
                   tweet_interval, check_interval, current_time,
                   last_tweet_time, last_check_time, batch, iter, caller,
                   cycles, reply_count, post, added>>

\* A KeyboardInterrupt in a fallback provider's generate of generate_tweet:
\* the bare except takes it, that invocation counts as failed, and the posting
\* part goes on.
AbsorbPost(outcome, conv_saved, pub, saved) ==
    /\ pc = "post"
    /\ PostDue(current_time, last_tweet_time, tweet_interval)
    /\ FallbackChain(providers, preferred_provider, NoHint) # <<>>
    /\ ~outcome[1]
    /\ ~outcome[2]
    /\ PostStep(outcome, conv_saved, pub, saved,
                [at |-> "fallback", by |-> "bare_except"], FALSE)

\* A KeyboardInterrupt in the time.sleep that ends an iteration.
InterruptSleep(stats_ok) ==
    /\ pc = "sleep"
    /\ SleepDuration(current_time, last_tweet_time, tweet_interval,
                     check_interval) >= 0
    /\ LET h == Shutdown(db, stats_ok, ret)
       IN  pc' = h.pc /\ db' = h.db /\ ret' = h.ret
    /\ sig' = [at |-> "sleep", by |-> "run"]
    /\ ev' = [kind |-> "interrupted", id |-> 0]
    /\ UNCHANGED <<llmVars, phase, init_error, init_trace, twitter_client,
                   replied_tweets, storeVars, clock, tweet_interval,
                   check_interval, current_time, last_tweet_time,
                   last_check_time, batch, iter, caller, cycles, reply_count,
                   post, added>>

\* A KeyboardInterrupt in time.sleep(300): that call is made in the `except
\* Exception` clause (line 537), outside the try block, so no clause of the
\* try statement takes it and it leaves run.
InterruptBackoff ==
    /\ pc = "backoff"
    /\ pc' = "killed"
    /\ sig' = [at |-> "backoff_sleep", by |-> "none"]
    /\ ev' = [kind |-> "interrupted", id |-> 0]
    /\ UNCHANGED <<llmVars, initVars, replied_tweets, storeVars, clock,
                   tweet_interval, check_interval, current_time,
                   last_tweet_time, last_check_time, batch, iter, caller,
                   cycles, reply_count, post, ret, added>>

\* One instance running run(...), with a KeyboardInterrupt arriving at any
\* blocking call.
NextStop ==
    \/ ConstructAny
    \/ \E ti \in TweetIntervalChoices, ci \in CheckIntervalChoices :
           RunStart(ti, ci)
    \/ \E fetch \in FetchOutcomes(RunMentionIds) : IterBegin(fetch)
    \/ \E o \in MentionOutcomes(db) : CheckMention(o)
    \/ \E outcome \in Outcomes(providers), conv_saved \in StoreReturns(db),
          pub \in PublishOutcomes(twitter_client),
          saved \in StoreReturns(db) :
           Post(outcome, conv_saved, pub, saved)
    \/ Sleep
    \/ Backoff
    \/ \E stats_ok \in StoreReturns(db) : InterruptFetch(stats_ok)
    \/ \E point \in MentionUnwindPoints, stats_ok \in StoreReturns(db) :
           InterruptMention(point, stats_ok)
    \/ \E point \in AbsorbPoints, o \in MentionOutcomes(db) :
           AbsorbMention(point, o)
    \/ \E point \in PostUnwindPoints, conv \in BOOLEAN,
          stats_ok \in StoreReturns(db) :
           InterruptPost(point, conv, stats_ok)
    \/ \E outcome \in Outcomes(providers), conv_saved \in StoreReturns(db),
          pub \in PublishOutcomes(twitter_client),
          saved \in StoreReturns(db) :
           AbsorbPost(outcome, conv_saved, pub, saved)
    \/ \E stats_ok \in StoreReturns(db) : InterruptSleep(stats_ok)
    \/ InterruptBackoff

SpecStop == Init /\ [][NextStop]_vars

\* A KeyboardInterrupt in a call of the body of the for loop while
\* check_and_reply_to_mentions is called directly: no handler of the method
\* takes it, so it leaves the call there, the clean-up skipped, and the caller
\* may call the method again later.
InterruptDirect(point) ==
    /\ pc = "check"
    /\ caller = "direct"
    /\ batch # <<>>
    /\ MentionPointReached(db, db_mentions, replied_tweets, Head(batch), point)
    /\ LET id == Head(batch)
           r == MentionInterrupted(db, db_mentions, db_replies,
                                   replied_tweets, id, point)
       IN  /\ db_mentions' = r.mentions
           /\ db_replies' = r.replies
           /\ replied_tweets' = r.replied
           /\ reply_count' =
                  IF r.published
                  THEN [reply_count EXCEPT ![id] = @ + 1]
                  ELSE reply_count
           /\ ev' = [kind |-> r.kind, id |-> id]
           /\ added' = Recorded(added, replied_tweets, r.replied, id)
    /\ batch' = <<>>
    /\ pc' = "idle"
    /\ sig' = [at |-> point, by |-> "none"]
    /\ UNCHANGED <<llmVars, initVars, db_tweets, db_conversations, clock,
                   tweet_interval, check_interval, current_time,
                   last_tweet_time, last_check_time, iter, caller, cycles,
                   post, ret>>

\* Check cycles called directly, any of them cut short by a KeyboardInterrupt;
\* the cycles fetch the same mention again and again.
NextCrash ==
    \/ ConstructAny
    \/ \E fetch \in FetchOutcomes(RunMentionIds) : CheckCall(fetch)
    \/ \E o \in MentionOutcomes(db) : CheckMention(o)
    \/ \E point \in MentionUnwindPoints : InterruptDirect(point)

SpecCrash == Init /\ [][NextCrash]_vars

----------------------------------------------------------------------------
(* The store object on its own: any sequence of its operations and close   *)

\* One call of a store operation on self.db, with tweet id `id` and the flag
\* (posted, replied) given.
StoreOp(op, id, flag, io_ok) ==
    /\ phase = "constructed"
    /\ db # "None"
    /\ pc = "idle"
    /\ op = "save_tweet" => Len(db_tweets) < MaxDocs
    /\ op = "save_mention" => Len(db_mentions[id]) < MaxDocs
    /\ op = "save_reply" => db_replies[id] < MaxDocs
    /\ op = "save_conversation" => db_conversations < MaxDocs
    /\ LET done == ~StoreMode(db) \/ io_ok
       IN  /\ db_tweets' =
                  IF done /\ op = "save_tweet"
                  THEN SaveTweet(db, db_tweets, flag) ELSE db_tweets
           /\ db_mentions' =
                  IF done /\ op = "save_mention"
                  THEN SaveMention(db, db_mentions, id, flag)
                  ELSE IF done /\ op = "mark_mention_replied"
                  THEN MarkMentionReplied(db, db_mentions, id)
                  ELSE db_mentions
           /\ db_replies' =
                  IF done /\ op = "save_reply"
                  THEN SaveReply(db, db_replies, id) ELSE db_replies
           /\ db_conversations' =
                  IF done /\ op = "save_conversation"
                  THEN SaveConversation(db, db_conversations)
                  ELSE db_conversations
    /\ ret' = StoreCall(op, id, db, db_mentions, io_ok)
    /\ UNCHANGED <<llmVars, initVars, replied_tweets, runVars, reply_count,
                   ev, post, sig, added>>

\* self.db.close()
DbClose ==
    /\ phase = "constructed"
    /\ db # "None"
    /\ pc = "idle"
    /\ db' = Close(db)
    /\ ret' = [op |-> "close", id |-> 0, value |-> "None", raised |-> FALSE,
               connected |-> StoreMode(db)]
    /\ UNCHANGED <<llmVars, phase, init_error, init_trace, twitter_client,
                   replied_tweets, storeVars, runVars, reply_count, ev, post,
                   sig, added>>

NextStore ==
    \/ ConstructAny
    \/ \E op \in StoreOps, id \in StoreIds, flag \in BOOLEAN,
          io_ok \in StoreReturns(db) :
           StoreOp(op, id, flag, io_ok)
    \/ DbClose

SpecStore == Init /\ [][NextStore]_vars

----------------------------------------------------------------------------
(* Claims about the provider manager, checked under SpecLLM                *)

\* The registered providers other than the one selected, in registration order.
OthersOf(provs, selected) == SelectSeq(provs, LAMBDA n : n # selected)

IsPrefix(s, t) == Len(s) <= Len(t) /\ s = SubSeq(t, 1, Len(s))

\* C3: when the selected provider's invocation fails and generate returns a
\* text, the invocations after the first are made on the other registered
\* providers, in registration order, and the text returned is the output of
\* the first of them that succeeds.
C3_FallbackReturnsFirstOtherSuccess ==
    (llm.status = "ok" /\ Len(llm.calls) > 1) =>
        /\ IsPrefix(Tail(llm.calls), OthersOf(providers, llm.calls[1]))
        /\ llm.value_of = Len(llm.calls)
        /\ \A i \in 1..(Len(llm.calls) - 1) : ~llm.results[i]
        /\ llm.results[Len(llm.calls)]

\* C4: in one generate call no provider is invoked more than once, so at most
\* N invocations are made for N registered providers (k+1 when the first k
\* providers tried fail and the next succeeds), in every selection mode.
C4_NoProviderInvokedTwice ==
    /\ \A i, j \in 1..Len(llm.calls) : i # j => llm.calls[i] # llm.calls[j]
    /\ Len(llm.calls) <= Len(providers)

\* C5: when every provider fails, the exception raised carries the error of
\* the last provider attempted.
C5_AllFailedCarriesLastError ==
    llm.status = "AllFailed" => llm.error_of = Len(llm.calls)

\* C6: with no hint, the preferred provider is selected when it is registered,
\* otherwise the first registered provider; selection fails only when the
\* registry is empty.
C6_SelectionWithoutHint ==
    (llm.status # "none" /\ llm.hint = NoHint) =>
        IF Len(providers) = 0
        THEN llm.status = "ValueError"
        ELSE /\ llm.status # "ValueError"
             /\ llm.calls[1] = IF InRegistry(providers, preferred_provider)
                                THEN preferred_provider
                                ELSE providers[1]

\* C7: a hint that is not registered makes generate fail with the selection
\* error and no provider is invoked; a registered hint is the first provider
\* invoked, whatever the preferred provider is.
C7_HintIsExact ==
    (llm.status # "none" /\ llm.hint # NoHint) =>
        IF InRegistry(providers, llm.hint)
        THEN Len(llm.calls) >= 1 /\ llm.calls[1] = llm.hint
        ELSE llm.status = "ValueError" /\ llm.calls = <<>>

\* C7 witness: a call whose hint is not registered although other providers
\* are, the preferred one among them.
C7_Witness ==
    /\ llm.status = "ValueError"
    /\ llm.hint # NoHint
    /\ ~InRegistry(providers, llm.hint)
    /\ InRegistry(providers, preferred_provider)

----------------------------------------------------------------------------
(* Claims about the mention check, checked under SpecCheck                 *)

\* The store holds a mention document of the id with replied = True.
MarkedReplied(id) ==
    \E i \in 1..Len(db_mentions[id]) : db_mentions[id][i]

\* C1: with a connected store, once a mention id is marked replied no later
\* step publishes a reply to that id, however often the id is fetched again.
C1_NoReplyOnceMarked ==
    [][\A id \in MentionIds :
          (db = "connected" /\ MarkedReplied(id)) =>
              reply_count'[id] = reply_count[id]]_vars

\* C1 witness: a mention that is marked replied in the store was fetched
\* again and skipped, its one reply standing.
C1_Witness ==
    /\ ev.kind = "skipped"
    /\ db = "connected"
    /\ MarkedReplied(ev.id)
    /\ reply_count[ev.id] = 1

\* C2: in memory-only mode each mention id receives at most one successful
\* reply publish, whatever batches are fetched and whatever the clean-up of
\* the in-memory set removes.
C2_MemoryAtMostOneReply ==
    ~StoreMode(db) => \A id \in MentionIds : reply_count[id] <= 1

----------------------------------------------------------------------------
(* Claims about construction and the scheduler loop, checked under Spec    *)

\* C8: when no backend is usable, __init__ raises ValueError right after the
\* provider manager was built: neither the store nor the social client is set
\* up, run is never entered, nothing is published and nothing is stored.
C8_NoProviderFailsFast ==
    (mgr = "ready" /\ Len(providers) = 0) =>
        /\ phase = "failed"
        /\ init_error = "ValueError"
        /\ init_trace = <<"llm">>
        /\ db = "None"
        /\ ~twitter_client
        /\ pc = "idle"
        /\ iter = 0
        /\ post = NoPost
        /\ db_tweets = <<>>
        /\ db_conversations = 0
        /\ \A id \in MentionIds :
              /\ reply_count[id] = 0
              /\ db_mentions[id] = <<>>
              /\ db_replies[id] = 0

\* C8 witness: a construction that failed for want of a usable backend.
C8_Witness ==
    /\ phase = "failed"
    /\ init_error = "ValueError"
    /\ mgr = "ready"
    /\ Len(providers) = 0

\* A post was generated in the current iteration and its publish is over.
PostedThisIteration ==
    /\ iter > 0
    /\ post.iter = iter
    /\ pc \in {"sleep", "backoff"}

\* C9: with a social client, a post generation sets last_tweet_time to the
\* iteration's time whether the publish succeeds or fails with a platform
\* error, so the post attempt after a failed publish comes no sooner than
\* tweet_interval later.
C9_FailedPublishAdvancesLastPostTime ==
    /\ (twitter_client /\ PostedThisIteration
            /\ post.publish \in {"ok", "tweepy"})
           => last_tweet_time = current_time
    /\ post.prev_publish = "tweepy"
           => post.time - post.prev_time >= tweet_interval

\* C10: without a social client, a post generation still sets last_tweet_time
\* to the iteration's time, so two consecutive post generations are at least
\* tweet_interval apart.
C10_NoClientAdvancesLastPostTime ==
    /\ (~twitter_client /\ PostedThisIteration)
           => last_tweet_time = current_time
    /\ (post.prev_publish = "noclient")
           => post.time - post.prev_time >= tweet_interval

\* The kinds of ev with which a mention check that ran in run ended by an
\* error: of the fetch, of a store call, or of the reply publish.
CheckErrorKinds ==
    {"check_error", "lookup_error", "save_mention_error", "reply_error",
     "mark_error", "save_reply_error"}

\* C11: in run, a mention check starts only when a social client is set and
\* check_interval has elapsed since last_check_time; whichever way the check
\* ends, an error of the fetch, of the store or of the publish included, the
\* next statement of run is the posting part of the same iteration and
\* last_check_time is the time of that iteration; no error of the check takes
\* the loop to its backoff.
C11_CheckTimerSetUnconditionally ==
    [][/\ (pc = "loop" /\ pc' # "loop"
            /\ CheckDue(twitter_client, clock, last_check_time, check_interval))
           => /\ pc' \in {"check", "post"}
              /\ pc' = "post" => last_check_time' = current_time'
       /\ (pc = "loop" /\ pc' = "check")
           => (twitter_client /\ clock - last_check_time >= check_interval)
       /\ (pc = "check" /\ caller = "run")
           => /\ pc' \in {"check", "post"}
              /\ pc' = "post" => last_check_time' = current_time']_vars

\* C11 witness: a mention check of run ended by an error, run is at its
\* posting part and last_check_time is the time of the iteration.
C11_Witness ==
    /\ pc = "post"
    /\ caller = "run"
    /\ ev.kind \in CheckErrorKinds
    /\ ev.kind # "check_error"
    /\ last_check_time = current_time
    /\ iter >= 2

\* C12: whenever an iteration of run reaches its closing time.sleep, the
\* duration passed to it, min(check_interval, time_until_tweet), is not
\* negative, whatever the earlier posts did and however late the iteration
\* started.
C12_SleepDurationNeverNegative ==
    pc = "sleep" =>
        SleepDuration(current_time, last_tweet_time, tweet_interval,
                      check_interval) >= 0

\* The loop of run is running: run was called and has not returned.
Running == pc \in {"loop", "check", "post", "sleep", "backoff"}

\* C13: an exception that escapes an iteration of run is followed by one
\* sleep of 300 seconds and then by the top of the loop, where the next
\* iteration starts; short of a cancellation run never returns, so the loop
\* goes on after any number of failed iterations: every backoff is followed
\* by the top of the loop.
C13_BackoffThenNextIteration ==
    /\ [][/\ pc = "backoff"
              => /\ pc' = "loop"
                 /\ clock' = clock + BackoffSeconds
                 /\ iter' = iter
                 /\ <<tweet_interval, check_interval, last_tweet_time,
                       last_check_time>>' =
                    <<tweet_interval, check_interval, last_tweet_time,
                      last_check_time>>
          /\ Running => Running']_vars
    /\ (pc = "backoff") ~> (pc = "loop")

\* C13 witness: an iteration that started right after a backoff sleep failed
\* too, and its own backoff sleep has brought the loop back to its top.
C13_Witness ==
    /\ pc = "loop"
    /\ ev.kind = "backoff"
    /\ iter >= 2
    /\ tweet_interval = 0
    /\ check_interval = 0
    /\ clock - current_time >= BackoffSeconds
    /\ current_time - StartTime >= BackoffSeconds

\* C14: when the publish of a post raises TweepyException and the store call
\* that follows returns, the post is stored with posted = False (store
\* connected) and the iteration ends by its normal sleep: the loop is not in
\* its backoff in that iteration, whatever the timers are.
C14_PlatformErrorHandledInIteration ==
    (PostedThisIteration /\ post.publish = "tweepy") =>
        /\ pc = "sleep"
        /\ StoreMode(db) =>
               (db_tweets # <<>> /\ ~db_tweets[Len(db_tweets)])

\* run(tweet_interval=0, check_interval=0) on an instance without a social
\* client, while its loop is running.
ZeroIntervalsNoClient ==
    /\ phase = "constructed"
    /\ Running
    /\ tweet_interval = 0
    /\ check_interval = 0
    /\ ~twitter_client

\* C17: with both intervals 0 and no social client, every iteration of run,
\* the first and the later ones, starts no mention check, generates exactly
\* one post, publishes nothing, and ends by a sleep of 0 seconds that leads to
\* the next iteration; the loop is never in its backoff.
C17_ZeroIntervalsNoClient ==
    [][ZeroIntervalsNoClient =>
          /\ pc \notin {"check", "backoff"}
          /\ reply_count' = reply_count
          /\ pc = "loop" => (pc' = "post" /\ iter' = iter + 1 /\ ev' = NoEvent)
          /\ pc = "post"
                => /\ post.iter < iter
                   /\ post'.iter = iter
                   /\ post'.publish = "noclient"
                   /\ pc' = "sleep"
          /\ pc = "sleep"
                => /\ post.iter = iter
                   /\ SleepDuration(current_time, last_tweet_time,
                                    tweet_interval, check_interval) = 0
                   /\ clock' = clock
                   /\ pc' = "loop"]_vars

\* C17 witness: in that scenario a second or later iteration generated its
\* post, as the iteration before it had, and its sleep of 0 seconds is over.
C17_Witness ==
    /\ ZeroIntervalsNoClient
    /\ pc = "loop"
    /\ ev.kind = "slept"
    /\ iter >= 2
    /\ post.iter = iter
    /\ post.publish = "noclient"
    /\ post.prev_publish = "noclient"
    /\ clock = current_time

\* C18: a mention step whose reply publish raises TweepyException leaves the
\* mention not replied in both modes (no replied flag in the store, the id not
\* in the in-memory set, no reply document, no reply counted), and a mention
\* that is not replied is never skipped when it is fetched: its reply publish
\* is called again, unless a store call raises before it.
C18_FailedReplyLeavesUnreplied ==
    [][/\ \A id \in MentionIds :
              (pc = "check" /\ ev' = [kind |-> "reply_failed", id |-> id])
                  => /\ ~MarkedReplied(id)'
                     /\ id \notin replied_tweets'
                     /\ ~AlreadyReplied(db', db_mentions', replied_tweets',
                                        id)
                     /\ db_replies' = db_replies
                     /\ reply_count' = reply_count
       /\ (pc = "check" /\ batch # <<>>
            /\ ~AlreadyReplied(db, db_mentions, replied_tweets, Head(batch)))
           => /\ ev'.id = Head(batch)
              /\ ev'.kind \in AttemptKinds
                                \cup {"lookup_error", "save_mention_error"}
              /\ ~StoreMode(db) => ev'.kind \in AttemptKinds]_vars

\* C18 witness: with a connected store a mention was fetched in a second
\* cycle after no reply to it had been published; its reply publish was
\* called again and failed again, and it is still not replied.
C18_Witness ==
    /\ ev.kind = "reply_failed"
    /\ StoreMode(db)
    /\ cycles >= 2
    /\ Len(db_mentions[ev.id]) >= 2
    /\ ~MarkedReplied(ev.id)
    /\ reply_count[ev.id] = 0
    /\ db_replies[ev.id] = 0

\* C19: when the store could not be reached at construction, construction
\* has succeeded all the same; the mention check publishes replies and keeps
\* its dedup state in the in-memory set alone (nothing is written to the
\* store's collections, a skipped mention is one found in the set), and the
\* mention replied last in a cycle is in the set when the cycle is over, so
\* that the next cycle skips it.
C19_MemoryDedupWithoutStore ==
    db = "unavailable" =>
        /\ phase = "constructed"
        /\ init_error = "none"
        /\ \A id \in MentionIds :
              db_mentions[id] = <<>> /\ db_replies[id] = 0
        /\ ev.kind = "skipped" => ev.id \in replied_tweets
        /\ (pc = "check" /\ ev.kind = "replied") => ev.id \in replied_tweets
        /\ (pc = "idle" /\ ev.kind = "replied") => ev.id \in replied_tweets

----------------------------------------------------------------------------
(* Claims about cancellation, checked under SpecStop                       *)

\* run is over: it returned ("stopped") or an exception left it ("killed").
RunEnded == pc \in {"stopped", "killed"}

\* C15: when a KeyboardInterrupt ends run on an instance whose store was
\* connected, in whichever call of the loop it arrived (mention check,
\* posting, the sleep of an iteration, the backoff sleep), run has read the
\* store's stats and closed the store, and has returned.  (The case of
\* get_stats itself raising is left aside.)
C15_InterruptClosesStore ==
    (RunEnded /\ db \in {"connected", "closed"} /\ ~ret.raised) =>
        /\ pc = "stopped"
        /\ db = "closed"
        /\ ret.op = "get_stats"

\* C16: a KeyboardInterrupt that arrives in a blocking call of an iteration
\* (fetch, dedup lookup, get_user, a store call, a provider's generate,
\* primary or fallback, a publish, a sleep) is taken by run's own handler and
\* ends the loop: no handler below run takes it and lets the iteration go on.
C16_InterruptEndsLoop ==
    sig.at \notin {"none", "backoff_sleep"} =>
        /\ sig.by = "run"
        /\ RunEnded

----------------------------------------------------------------------------
(* Claims about the store, checked under SpecStore                         *)

\* C20: a store operation called while the store is not connected, never
\* connected or closed by close(), returns its sentinel (None, False, [],
\* {connected: False}), does not raise, and leaves every collection as it
\* was.
C20_DisconnectedStoreIsNoOp ==
    [][~StoreMode(db) =>
          /\ storeVars' = storeVars
          /\ (ret'.op \in StoreOps /\ ~ret'.connected)
                => /\ ~ret'.raised
                   /\ ret'.value = Sentinel(ret'.op)]_vars

\* C20 witness: after close(), is_tweet_replied was asked about a mention
\* that the collection holds with replied = True, and answered False.
C20_Witness ==
    /\ db = "closed"
    /\ ret.op = "is_tweet_replied"
    /\ ~ret.connected
    /\ ret.value = "False"
    /\ ret.id \in StoreIds
    /\ MarkedReplied(ret.id)
    /\ db_tweets # <<>>

----------------------------------------------------------------------------
(* Claims about the dedup state of the mention check, under SpecCheck      *)

\* The ids a set bounded to n elements holds when it evicts the oldest first:
\* the last n of the additions.
MostRecent(order, n) ==
    {order[i] : i \in {j \in 1..Len(order) : j > Len(order) - n}}

\* C21: without a connected store, once check_and_reply_to_mentions has
\* returned, self.replied_tweets holds exactly the RepliedTweetsLimit ids added
\* most recently (all of them while fewer were added): the clean-up evicts the
\* oldest ids first, in insertion order.
C21_CleanupKeepsMostRecent ==
    (phase = "constructed" /\ ~StoreMode(db) /\ pc = "idle") =>
        replied_tweets = MostRecent(added, RepliedTweetsLimit)

\* C22: without a connected store, whenever check_and_reply_to_mentions has
\* returned (after the last mention, with no mentions fetched, with no user
\* data, or through one of its exception handlers) self.replied_tweets holds at
\* most RepliedTweetsLimit ids.
C22_MemoryBoundedAtReturn ==
    (phase = "constructed" /\ ~StoreMode(db) /\ pc = "idle") =>
        Cardinality(replied_tweets) <= RepliedTweetsLimit

\* A call that returned early, with no mentions fetched, after an earlier cycle
\* had added more ids than the limit and cut the set back.
C22_Witness ==
    /\ phase = "constructed"
    /\ ~StoreMode(db)
    /\ pc = "idle"
    /\ ev.kind = "no_mentions"
    /\ Len(added) > RepliedTweetsLimit
    /\ Cardinality(replied_tweets) = RepliedTweetsLimit

\* C23: with a connected store, the mentions collection holds at most one
\* document per mention id: observing again a mention that is still unreplied
\* (after a failed reply publish, say) adds no second document.
C23_OneMentionRecordPerId ==
    StoreMode(db) => \A id \in MentionIds : Len(db_mentions[id]) <= 1

\* The calls of mark_mention_replied(id) made so far, with a connected store:
\* line 378 is the statement after create_tweet, so it is called once for
\* every reply publish that succeeded, whether it then returns or raises.
MarkInvocations(id) == reply_count[id]

\* C24: with a connected store the replied flag of a mention goes from false to
\* true at most once and is never reset: once is_tweet_replied(id) holds it
\* holds in every later state and no document with replied = false is written
\* for that id afterwards; and mark_mention_replied(id) is invoked at most
\* once per id over any sequence of check cycles.
C24_RepliedFlagSetOnce ==
    /\ [][\A id \in MentionIds :
            MarkedReplied(id) =>
                /\ MarkedReplied(id)'
                /\ Len(db_mentions'[id]) >= Len(db_mentions[id])
                /\ \A i \in 1..Len(db_mentions'[id]) :
                       IF i <= Len(db_mentions[id])
                       THEN db_mentions[id][i] => db_mentions'[id][i]
                       ELSE db_mentions'[id][i]]_vars
    /\ [](StoreMode(db) => \A id \in MentionIds : MarkInvocations(id) <= 1)

\* C25: once a reply publish has succeeded the dedup state is marked in one
\* piece: with a connected store the flag is set and the reply document is
\* written together, so no check cycle ends with a reply published and the
\* mention unmarked, or with the flag set and no reply document; without a
\* connected store the id is in self.replied_tweets from the step that
\* published the reply.
C25_MarkingIsAtomic ==
    /\ (StoreMode(db) /\ pc = "idle") =>
           \A id \in MentionIds :
               /\ reply_count[id] > 0 => MarkedReplied(id)
               /\ MarkedReplied(id) <=> db_replies[id] > 0
    /\ (phase = "constructed" /\ ~StoreMode(db) /\ pc = "check"
            /\ ev.kind = "replied")
           => ev.id \in replied_tweets

----------------------------------------------------------------------------
(* Claims about the post records of run, checked under Spec                *)

\* C26: for each post generation of run at most one document is saved in the
\* tweets collection, with the final state of that attempt: only the posting
\* part of an iteration adds a document, it adds one at most, with posted =
\* true only if create_tweet succeeded, and no document saved earlier is
\* changed.
C26_OnePostRecordPerAttempt ==
    [][/\ Len(db_tweets') <= iter'
       /\ Len(db_tweets') >= Len(db_tweets)
       /\ \A i \in 1..Len(db_tweets) : db_tweets'[i] = db_tweets[i]
       /\ Len(db_tweets') > Len(db_tweets) =>
              /\ pc = "post"
              /\ pc' # "post"
              /\ Len(db_tweets') = Len(db_tweets) + 1
              /\ post'.iter = iter
              /\ db_tweets'[Len(db_tweets')] <=> post'.publish = "ok"]_vars

\* Two attempts recorded, the earlier published, the later rejected by the
\* platform: one document each, with the flag of its own attempt.
C26_Witness ==
    /\ StoreMode(db)
    /\ db_tweets = <<TRUE, FALSE>>
    /\ post.publish = "tweepy"
    /\ post.prev_publish = "ok"
    /\ iter = 2

----------------------------------------------------------------------------
(* Claims about the source of the dedup state, checked under SpecCheck     *)

\* C27: one instance uses one dedup source throughout, fixed by the store's
\* connectivity at construction.  With a connected store self.replied_tweets
\* is never written (it stays empty) and a mention is skipped exactly when
\* the store marks it replied; without one no mention or reply document is
\* written and a mention is skipped exactly when the set holds its id; the
\* source does not change between the lookup and the marking.
C27_OneDedupSource ==
    /\ [](StoreMode(db) => (replied_tweets = {} /\ added = <<>>))
    /\ []((phase = "constructed" /\ ~StoreMode(db)) =>
              \A id \in MentionIds :
                  db_mentions[id] = <<>> /\ db_replies[id] = 0)
    /\ [][/\ phase = "constructed" => db' = db
          /\ (pc = "check" /\ ev'.kind # "lookup_error") =>
                 (ev'.kind = "skipped" <=>
                      IF StoreMode(db) THEN MarkedReplied(Head(batch))
                      ELSE Head(batch) \in replied_tweets)]_vars

\* With a connected store: a mention skipped because the store marks it
\* replied, the in-memory set still empty after the reply made earlier.
C27_Witness ==
    /\ StoreMode(db)
    /\ ev.kind = "skipped"
    /\ MarkedReplied(ev.id)
    /\ reply_count[ev.id] = 1
    /\ replied_tweets = {}

----------------------------------------------------------------------------
(* Claims about the pacing of the replies, checked under SpecCheck         *)

\* time.time() at the create_tweet call of the mention step that produced ev:
\* within a check cycle time passes in time.sleep(5) only, which follows the
\* publish of a step that ended as "replied".
LastAttemptTime ==
    IF ev.kind = "replied" THEN clock - ReplyPauseSeconds ELSE clock

\* C29: within one check cycle two consecutive reply publish attempts are at
\* least ReplyPauseSeconds apart, whether the earlier one succeeded or failed:
\* when the step before called create_tweet in this cycle and this step calls
\* it too, the pause lies between the two calls.
C29_PauseBetweenReplyAttempts ==
    [][(pc = "check" /\ ev.kind \in AttemptKinds /\ ev'.kind \in AttemptKinds)
           => clock - LastAttemptTime >= ReplyPauseSeconds]_vars

----------------------------------------------------------------------------
(* Claims about a reply cut short, checked under SpecCrash                 *)

\* The last step began the reply to mention ev.id (generate_reply was called)
\* and did not get to set its dedup mark: the publish failed, the marking
\* raised, or a KeyboardInterrupt ended the call in between.
ReplyCutShort ==
    \/ ev.kind \in {"reply_failed", "reply_error", "mark_error"}
    \/ ev.kind = "interrupted" /\ sig.at \in {"generate", "publish", "mark"}

\* C30: with a connected store the mention is saved with replied = false
\* before generate_reply is called, so whenever a reply was begun and its
\* marking not reached (failed publish, or the call cut short in between) the
\* store holds a document of the mention and none with replied = true; and a
\* mention in that state is not skipped when a later cycle fetches it.
C30_MentionSavedBeforeReply ==
    /\ []((StoreMode(db) /\ ReplyCutShort) =>
              /\ db_mentions[ev.id] # <<>>
              /\ ~MarkedReplied(ev.id))
    /\ [][(StoreMode(db) /\ pc = "check" /\ ev'.kind = "skipped") =>
              MarkedReplied(Head(batch))]_vars

\* A reply cut short by a KeyboardInterrupt in generate_reply, the mention
\* saved as unreplied, and a later cycle that fetched it again and replied.
C30_Witness ==
    /\ StoreMode(db)
    /\ sig.at = "generate"
    /\ ev.kind = "replied"
    /\ db_mentions[ev.id] = <<TRUE, FALSE>>
    /\ reply_count[ev.id] = 1

----------------------------------------------------------------------------
(* Claims about a failed text generation, checked under SpecGen            *)

\* The generate call last made raised: every provider failed, or the
\* selection of the provider raised ValueError.
GenerationFailed == llm.status \in {"AllFailed", "ValueError"}

\* The kinds of ev of a posting step in which create_tweet was called.
PublishAttemptKinds ==
    {"post_ok", "post_ok_unsaved", "post_tweepy", "post_tweepy_unsaved",
     "post_other"}

\* The kinds of ev of a posting step whose post was due.
PostKinds == PublishAttemptKinds \cup {"post_noclient", "post_generate_error"}

\* C28: when the generation of a text fails, generate_tweet and generate_reply
\* answer with their static text and raise nothing.  The posting step still
\* calls create_tweet for the due post (with a client), the mention step still
\* calls create_tweet for the reply and, when that succeeds, marks the
\* mention; no step that made the failed generation ends in run's backoff
\* unless a store call of its own raised.
C28_GenerationFailureFallsBack ==
    /\ (pc = "backoff" /\ ev.kind \in PostKinds \cup AttemptKinds
                                        \cup {"generate_error"})
           => ev.kind = "post_tweepy_unsaved"
    /\ GenerationFailed =>
           /\ GenerateTweet(db, llm, TRUE).text = "static"
           /\ ~GenerateTweet(db, llm, TRUE).raised
           /\ GenerateReply(llm).text = "static"
           /\ ~GenerateReply(llm).raised
    /\ (GenerationFailed /\ ev.kind \in PostKinds) =>
           IF twitter_client THEN ev.kind \in PublishAttemptKinds
           ELSE ev.kind = "post_noclient"
    /\ (GenerationFailed /\ ev.kind \in AttemptKinds \cup {"generate_error"})
           => /\ ev.kind \in AttemptKinds
              /\ pc \in {"check", "post"}
    /\ (GenerationFailed /\ ev.kind = "replied") =>
           IF StoreMode(db) THEN MarkedReplied(ev.id) /\ db_replies[ev.id] > 0
           ELSE ev.id \in replied_tweets

\* An instance whose provider selection raises at every generation: the
\* reply to the mention was published and marked, and the post of the
\* iteration is published with the static text.
C28_Witness ==
    /\ preferred_provider = "openai"
    /\ llm.status = "ValueError"
    /\ StoreMode(db)
    /\ ev.kind = "post_ok"
    /\ reply_count[1] = 1
    /\ MarkedReplied(1)
    /\ pc = "sleep"


-----------------------------------------------------------------------------
(* Claims about the records of replies and posts, the independence of the  *)
(* mentions of a batch, and the timers of run                              *)

\* C31: a reply record exists for a mention only if a reply to it was
\* published successfully before the record was inserted: the records of a
\* mention never outnumber its successful reply publishes, and a record is
\* inserted only by the step whose publish succeeded, one record for that one
\* publish; a failed publish, a skipped mention or an aborted cycle adds none.
C31_ReplyRecordOnlyAfterPublish ==
    /\ [](\A id \in MentionIds : db_replies[id] <= reply_count[id])
    /\ [][\A id \in MentionIds :
              /\ db_replies'[id] >= db_replies[id]
              /\ db_replies'[id] > db_replies[id] =>
                     /\ ev' = [kind |-> "replied", id |-> id]
                     /\ db_replies'[id] = db_replies[id] + 1
                     /\ reply_count'[id] = reply_count[id] + 1]_vars

\* A reply record was inserted after the second publish for a mention, the
\* first having succeeded without its record being written.
C31_Witness ==
    /\ StoreMode(db)
    /\ ev.kind = "replied"
    /\ db_replies[ev.id] = 1
    /\ reply_count[ev.id] = 2


\* C32: in store mode every publish attempt of a generated post leaves one
\* post record, posted = TRUE after a successful publish and posted = FALSE
\* after a failed one, whatever exception create_tweet raised (the store
\* write itself returning).
C32_PostRecordForEveryAttempt ==
    [][(/\ StoreMode(db)
        /\ pc = "post"
        /\ ev'.kind \in {"post_ok", "post_tweepy", "post_other"})
       => /\ Len(db_tweets') = Len(db_tweets) + 1
          /\ db_tweets'[Len(db_tweets')] = (ev'.kind = "post_ok")]_vars


\* The ways the handling of one mention fails after the dedup lookup: a store
\* write raises (save_mention, mark_mention_replied, save_reply) or the reply
\* publish raises (a TweepyException or any other exception).
MentionFailureKinds ==
    {"save_mention_error", "mark_error", "save_reply_error", "reply_failed",
     "reply_error"}

\* C33: within one check cycle each fetched mention is processed
\* independently: when the handling of a mention fails and mentions of the
\* batch remain, the cycle goes on with the next of them.
C33_MentionsIndependent ==
    [][(/\ pc = "check"
        /\ Len(batch) > 1
        /\ ev'.kind \in MentionFailureKinds)
       => /\ pc' = "check"
          /\ batch' = Tail(batch)]_vars


\* C34: on the first iteration of run both timers are due, for any intervals
\* run was called with: with a social client the mention check is called, and
\* the posting part generates and publishes a post instead of waiting.
C34_FirstIterationBothDue ==
    [][/\ (pc = "loop" /\ iter = 0 /\ iter' = 1 /\ twitter_client)
              => ev' # NoEvent
       /\ (pc = "post" /\ iter = 1 /\ pc' # "post")
              => post'.iter = 1]_vars


\* The results of the posting part in which create_tweet returned.
PublishedKinds == {"ok", "ok_unsaved"}

\* C35: any two successful post publishes by run are at least tweet_interval
\* apart, by the current_time of their iterations; stated for two posting
\* attempts that follow each other and both published, whatever mention
\* checks, sleeps or backoffs lie between them.
C35_PublishesIntervalApart ==
    (/\ post.publish \in PublishedKinds
     /\ post.prev_publish \in PublishedKinds)
    => post.time - post.prev_time >= tweet_interval


-----------------------------------------------------------------------------
(* The claim about the length of a generated post, checked under SpecText  *)

\* C36: generate_tweet returns a text of at most TweetLimit characters for
\* every length of the provider's output and on every path, the static texts
\* returned when the generation or save_conversation failed included.
C36_TweetWithinLimit ==
    ret.op = "generate_tweet" => ret.value <= TweetLimit

\* The provider's output was longer than the limit and came back cut to it.
C36_Witness ==
    /\ ret.op = "generate_tweet"
    /\ ret.text = "generated"
    /\ ret.given > TweetLimit
    /\ ret.value = TweetLimit


-----------------------------------------------------------------------------
(* The claim about the registry of the provider manager, under SpecLLM      *)

\* The place of a backend in the probe order of _initialize_providers.
ProbeIndex(name) == CHOOSE i \in 1..Len(BackendOrder) : BackendOrder[i] = name

\* C37: constructing the provider manager never fails: whatever backends fail
\* to initialise or lack credentials, the construction returns, and the
\* registry holds exactly the usable backends, each once, in the probe order;
\* no later generate call (with the get_provider call it makes), returning or
\* raising, changes the registry.
C37_RegistryBuiltOnce ==
    /\ [](mgr = "ready" =>
              /\ ret.op = "LLMProviderManager"
              /\ ~ret.raised
              /\ {providers[i] : i \in 1..Len(providers)} = ret.given
              /\ \A i, j \in 1..Len(providers) :
                     i < j => ProbeIndex(providers[i]) < ProbeIndex(providers[j]))
    /\ [][mgr = "ready" => (mgr' = "ready" /\ providers' = providers)]_vars

\* Anthropic and gemini were not usable, and the one registered provider
\* failed a later generate call: the registry is still the one built.
C37_Witness ==
    /\ mgr = "ready"
    /\ ret.op = "LLMProviderManager"
    /\ ret.given = {"openai"}
    /\ providers = <<"openai">>
    /\ llm.status = "AllFailed"

====
